---- MODULE Spec2Model ----
(***************************************************************************)
(* Model of the DockuChat backend: the FastAPI handlers of Backend/api.py  *)
(* (upload_file, query_document, list_documents, delete_document) and the  *)
(* ingestion, retrieval and deletion pipeline of Backend/rag_pipeline.py.  *)
(*                                                                         *)
(* Strings are sequences of one-character strings.  The upload directory   *)
(* is a set of base names, the vector store a function from collection     *)
(* names to sets of stored entries.  upload_file and query_document are    *)
(* coroutines without a suspension point, so the event loop runs one of    *)
(* them at a time; delete_document is a plain function, which FastAPI runs *)
(* on a thread of its pool, concurrently with the event loop.              *)
(***************************************************************************)
EXTENDS Integers, Sequences, FiniteSets, TLC

VARIABLES
    dir,        \* base names of the files in UPLOAD_DIRECTORY
    store,      \* collection name -> set of stored entries
    dirty,      \* collections with a mutation that persist() has not flushed
    nextIngest, \* number of the next add_documents call (id generation)
    loop,       \* the coroutine the event loop is running (or idle)
    thr,        \* thread -> the delete_document call it is running (or idle)
    hist,       \* (history) user file name -> outcome of its last upload, if not deleted since
    pure        \* inputs and results of the pure-function specifications

vars == <<dir, store, dirty, nextIngest, loop, thr, hist, pure>>
sysVars == <<dir, store, dirty, nextIngest, loop, thr, hist>>

(***************************************************************************)
(* Bounds of the model.                                                    *)
(***************************************************************************)
MaxNameLen == 3     \* longest filename of the naming specification
MaxCalls == 2       \* repeated calls on one filename in the naming specification
MaxCands == 6       \* most Stage-1 candidates of the re-ranking specification
MaxScore == 2       \* cross-encoder scores are drawn from 0..MaxScore
MaxIngest == 2      \* add_documents calls per behaviour
NThreads == 1       \* threads of the pool that run delete_document
NQueries == 1       \* distinct query strings
MaxStoreIngest == 1 \* add_documents calls per behaviour of the writers' specification
MaxColl == 27       \* entries of the collection that the queries' specification starts with
MaxOpens == 3       \* Chroma(...) constructions per behaviour of the store's specification
MaxAdds == 2        \* add_documents calls per behaviour of the store's specification

(***************************************************************************)
(* Program constants.                                                      *)
(***************************************************************************)
RETRIEVER_K == 25
TOP_N == 5
CHUNK_SIZE == 750
CHUNK_OVERLAP == 100

(***************************************************************************)
(* Generic helpers.                                                        *)
(***************************************************************************)
Min(a, b) == IF a <= b THEN a ELSE b

Range(s) == {s[i] : i \in 1..Len(s)}

SeqsUpTo(S, n) == UNION {[1..k -> S] : k \in 0..n}

Take(s, n) == SubSeq(s, 1, Min(n, Len(s)))

(***************************************************************************)
(* Collection naming: rag_pipeline.py, sanitize_filename_for_collection.   *)
(***************************************************************************)
\* str.replace(old, new) for one-character old and new
Replace(s, old, new) == [i \in 1..Len(s) |-> IF s[i] = old THEN new ELSE s[i]]

RAG_PREFIX == <<"r", "a", "g", "_">>

\* a slip that forgets the second replace
sanitize_no_period(filename) == RAG_PREFIX \o Replace(filename, " ", "_")

sanitize_filename_for_collection(filename) ==
    LET safe_name == Replace(Replace(filename, " ", "_"), ".", "_")
    IN  RAG_PREFIX \o safe_name

(***************************************************************************)
(* Re-ranking: rag_pipeline.py, create_rag_chain.rerank_docs.              *)
(* A candidate list is the sequence of its cross-encoder scores; a         *)
(* candidate is named by its Stage-1 position.                             *)
(***************************************************************************)
\* insert pair p = <<doc, score>> behind every pair whose score is >= its own
InsertDesc(sorted, p) ==
    LET before == {i \in 1..Len(sorted) : sorted[i][2] >= p[2]}
        k == IF before = {} THEN 0
             ELSE CHOOSE i \in before : \A j \in before : j <= i
    IN  SubSeq(sorted, 1, k) \o <<p>> \o SubSeq(sorted, k + 1, Len(sorted))

RECURSIVE SortDescFrom(_, _, _)
SortDescFrom(pairs, i, acc) ==
    IF i > Len(pairs) THEN acc
    ELSE SortDescFrom(pairs, i + 1, InsertDesc(acc, pairs[i]))

\* list.sort(key=lambda x: x[1], reverse=True): stable, descending
SortDesc(pairs) == SortDescFrom(pairs, 1, <<>>)

\* insert pair p in front of every pair whose score is <= its own
InsertDescUnstable(sorted, p) ==
    LET before == {i \in 1..Len(sorted) : sorted[i][2] > p[2]}
        k == IF before = {} THEN 0
             ELSE CHOOSE i \in before : \A j \in before : j <= i
    IN  SubSeq(sorted, 1, k) \o <<p>> \o SubSeq(sorted, k + 1, Len(sorted))

RECURSIVE SortDescUnstableFrom(_, _, _)
SortDescUnstableFrom(pairs, i, acc) ==
    IF i > Len(pairs) THEN acc
    ELSE SortDescUnstableFrom(pairs, i + 1, InsertDescUnstable(acc, pairs[i]))

\* a sort that reverses the order of equal scores (sort ascending, then reverse)
rerank_docs_unstable(docs, scores) ==
    LET doc_scores == [i \in 1..Len(docs) |-> <<docs[i], scores[i]>>]
        sorted == SortDescUnstableFrom(doc_scores, 1, <<>>)
        top == Take(sorted, TOP_N)
    IN  [i \in 1..Len(top) |-> top[i][1]]

\* a slice that starts one late: doc_scores[1:5]
rerank_docs_late_slice(docs, scores) ==
    LET doc_scores == [i \in 1..Len(docs) |-> <<docs[i], scores[i]>>]
        sorted == SortDesc(doc_scores)
        top == SubSeq(sorted, 2, Min(Len(sorted), TOP_N))
    IN  [i \in 1..Len(top) |-> top[i][1]]

rerank_docs(docs, scores) ==
    LET doc_scores == [i \in 1..Len(docs) |-> <<docs[i], scores[i]>>]
        sorted == SortDesc(doc_scores)
        top == Take(sorted, TOP_N)
    IN  [i \in 1..Len(top) |-> top[i][1]]

(***************************************************************************)
(* File names, documents and elements.                                     *)
(***************************************************************************)
\* two user file names that differ only in a space against a period
F_SPACE == <<"a", " ", "b">>
F_DOT == <<"a", ".", "b">>
UserFilenames == {F_SPACE, F_DOT}

\* a file name whose collection is not that of the two above
F_OTHER == <<"c">>
Filenames == UserFilenames \cup {F_OTHER}

\* base name of the k-th image that partition() extracts from a document
Digits == <<"1", "2", "3">>
ImageBase(k) == <<"i", Digits[k]>>

\* os.path.join(UPLOAD_DIRECTORY, name); the set dir holds the base names
PathJoin(name) == <<"/">> \o name

\* names a query or delete request can carry
AllNames == UserFilenames \cup {ImageBase(1)}

CollNames == {sanitize_filename_for_collection(n) : n \in AllNames \cup Filenames}

TextEl(n) == [kind |-> "Text", len |-> n]
TableEl == [kind |-> "Table", len |-> 0]
TableOf(n) == [kind |-> "Table", len |-> n]
ImageEl == [kind |-> "Image", len |-> 0]

\* the uploaded documents, as the element sequences partition() returns
Docs == {<<TextEl(800)>>, <<TableEl, ImageEl, TextEl(300)>>}

ImageIndex(doc, i) == Cardinality({j \in 1..i : doc[j].kind = "Image"})

ImagesOf(doc) == {ImageIndex(doc, i) : i \in {j \in 1..Len(doc) : doc[j].kind = "Image"}}

HasTable(doc) == \E i \in 1..Len(doc) : doc[i].kind = "Table"

(***************************************************************************)
(* Element transformation: rag_pipeline.py, process_and_store_document.    *)
(***************************************************************************)
Chunk(source, type, content) == [source |-> source, type |-> type, content |-> content]

\* a loop over elements that passes a table through the text splitter: a table
\* longer than a chunk gives several Documents
RECURSIVE ElementDocsSplit(_, _, _, _)
ElementDocsSplit(doc, i, filename, imgFail) ==
    IF i > Len(doc) THEN <<>>
    ELSE LET el == doc[i]
             parts == IF el.len > CHUNK_SIZE THEN 2 ELSE 1
             here ==
                 IF el.kind = "Table"
                 THEN [p \in 1..parts |-> Chunk(filename, "table_summary", <<"summary", i, p - 1>>)]
                 ELSE IF el.kind = "Image"
                 THEN IF ImageIndex(doc, i) \in imgFail THEN <<>>
                      ELSE <<Chunk(PathJoin(ImageBase(ImageIndex(doc, i))),
                                   "image_description", <<"description", i, 0>>)>>
                 ELSE <<>>
         IN  here \o ElementDocsSplit(doc, i + 1, filename, imgFail)

\* a loop over elements that ends at the first image that fails
RECURSIVE ElementDocsStop(_, _, _, _)
ElementDocsStop(doc, i, filename, imgFail) ==
    IF i > Len(doc) THEN <<>>
    ELSE LET el == doc[i]
         IN  IF el.kind = "Image" /\ ImageIndex(doc, i) \in imgFail THEN <<>>
             ELSE (IF el.kind = "Table"
                   THEN <<Chunk(filename, "table_summary", <<"summary", i, 0>>)>>
                   ELSE IF el.kind = "Image"
                   THEN <<Chunk(PathJoin(ImageBase(ImageIndex(doc, i))),
                                "image_description", <<"description", i, 0>>)>>
                   ELSE <<>>) \o ElementDocsStop(doc, i + 1, filename, imgFail)

\* the loop over elements: one Document per table, one per image that did not fail
RECURSIVE ElementDocs(_, _, _, _)
ElementDocs(doc, i, filename, imgFail) ==
    IF i > Len(doc) THEN <<>>
    ELSE LET el == doc[i]
             here ==
                 IF el.kind = "Table"
                 THEN <<Chunk(filename, "table_summary", <<"summary", i, 0>>)>>
                 ELSE IF el.kind = "Image"
                 THEN IF ImageIndex(doc, i) \in imgFail THEN <<>>
                      ELSE <<Chunk(PathJoin(ImageBase(ImageIndex(doc, i))),
                                   "image_description", <<"description", i, 0>>)>>
                 ELSE <<>>
         IN  here \o ElementDocs(doc, i + 1, filename, imgFail)

\* raw_text += element.text + "\n\n"
RECURSIVE RawTextLen(_, _)
RawTextLen(doc, i) ==
    IF i > Len(doc) THEN 0
    ELSE (IF doc[i].kind = "Text" THEN doc[i].len + 2 ELSE 0) + RawTextLen(doc, i + 1)

\* RecursiveCharacterTextSplitter(chunk_size, chunk_overlap).split_text on a text
\* of `total` characters: windows of at most CHUNK_SIZE, each starting
\* CHUNK_SIZE - CHUNK_OVERLAP after the one before; <<start, length>> pairs
RECURSIVE SplitFrom(_, _)
SplitFrom(total, start) ==
    IF total - start <= 0 THEN <<>>
    ELSE IF total - start <= CHUNK_SIZE THEN <<<<start, total - start>>>>
    ELSE <<<<start, CHUNK_SIZE>>>> \o SplitFrom(total, start + CHUNK_SIZE - CHUNK_OVERLAP)

\* a splitter that returns the text as one chunk
split_text_whole(rawLen) == IF rawLen > 2 THEN <<<<0, rawLen - 2>>>> ELSE <<>>

\* the splitter strips the trailing separator of raw_text
split_text(rawLen) == SplitFrom(IF rawLen >= 2 THEN rawLen - 2 ELSE 0, 0)

TextDocs(doc, filename) ==
    LET text_chunks == split_text(RawTextLen(doc, 1))
    IN  [i \in 1..Len(text_chunks) |->
            Chunk(filename, "text", <<"text", text_chunks[i][1], text_chunks[i][2]>>)]

documents_to_embed(doc, filename, imgFail) ==
    ElementDocs(doc, 1, filename, imgFail) \o TextDocs(doc, filename)

\* a stored entry: the Document, the id add_documents gave it, and (history) the
\* file name whose ingestion stored it
Entry(c, n, i, filename) ==
    [id |-> <<n, i>>, source |-> c.source, type |-> c.type, content |-> c.content,
     origin |-> filename]

(***************************************************************************)
(* State of the handlers.  A handler that has returned or raised stays at  *)
(* "done" with its response status until the response has been sent.       *)
(***************************************************************************)
Threads == 1..NThreads

Queries == 1..NQueries

\* failed, calls, scored, prior (history): the images that failed, the store and
\* chain calls made so far, the pairs scored, and the outcome recorded for the
\* file name when the upload began
IdleLoop ==
    [op |-> "idle", pc |-> "idle", f |-> <<>>, doc |-> <<>>, embed |-> <<>>,
     n |-> 0, q |-> 0, cands |-> <<>>, ctx |-> <<>>, llm |-> 0, status |-> 0,
     failed |-> {}, calls |-> <<>>, scored |-> <<>>, prior |-> "none"]

\* ing (history): the file name was ingested, and not deleted, when the call began;
\* calls (history): the store calls made so far; ret: repr() of the value that
\* delete_document_vectors returned
IdleThread ==
    [pc |-> "idle", f |-> <<>>, snap |-> {}, caught |-> FALSE, status |-> 0, ing |-> FALSE,
     calls |-> <<>>, ret |-> "unset"]

SysInit ==
    /\ dir = {}
    /\ store = [c \in CollNames |-> {}]
    /\ dirty = {}
    /\ nextIngest = 1
    /\ loop = IdleLoop
    /\ thr = [t \in Threads |-> IdleThread]
    /\ hist = [f \in Filenames |-> "none"]

Init == SysInit /\ pure = [kind |-> "none"]

\* an event-loop handler returns or raises with this status
LoopReturns(status) == loop' = [loop EXCEPT !.pc = "done", !.status = status]

\* the response is sent and the event loop takes the next request
LoopRelease ==
    /\ loop.pc = "done"
    /\ loop' = IdleLoop
    /\ UNCHANGED <<dir, store, dirty, nextIngest, thr, hist, pure>>

\* the outcome of an upload that was not rejected, kept for the history
Outcome(f, what) == hist' = [hist EXCEPT ![f] = what]

(***************************************************************************)
(* upload_file (api.py) with process_and_store_document (rag_pipeline.py). *)
(***************************************************************************)
\* an upload_file that does not look whether the file exists
UploadStartNoCheck(f, doc) ==
    /\ loop.op = "idle"
    /\ nextIngest <= MaxIngest
    /\ loop' = [IdleLoop EXCEPT !.op = "upload", !.f = f, !.doc = doc, !.pc = "save",
                                !.prior = hist[f]]
    /\ UNCHANGED <<dir, store, dirty, nextIngest, thr, hist, pure>>

\* file_path = join(UPLOAD_DIRECTORY, file.filename); 409 if it exists
UploadStart(f, doc) ==
    /\ loop.op = "idle"
    /\ nextIngest <= MaxIngest
    /\ loop' = [IdleLoop EXCEPT !.op = "upload", !.f = f, !.doc = doc, !.prior = hist[f],
                                !.pc = IF f \in dir THEN "done" ELSE "save",
                                !.status = IF f \in dir THEN 409 ELSE 0]
    /\ UNCHANGED <<dir, store, dirty, nextIngest, thr, hist, pure>>

\* open(file_path, "wb") and shutil.copyfileobj: open() creates the file, so a
\* failure of the copy leaves it behind; the except clause only raises 500
UploadSave ==
    /\ loop.op = "upload" /\ loop.pc = "save"
    /\ \/ /\ dir' = dir \cup {loop.f}
          /\ loop' = [loop EXCEPT !.pc = "partition"]
          /\ UNCHANGED hist
       \/ /\ dir' = dir
          /\ LoopReturns(500)
          /\ Outcome(loop.f, "failed")
       \/ /\ dir' = dir \cup {loop.f}
          /\ LoopReturns(500)
          /\ Outcome(loop.f, "failed")
    /\ UNCHANGED <<store, dirty, nextIngest, thr, pure>>

\* partition(filename=file_path, ..., image_output_dir_path=UPLOAD_DIRECTORY):
\* raises if the file is gone or unparseable, else writes the images it extracts
UploadPartition ==
    /\ loop.op = "upload" /\ loop.pc = "partition"
    /\ \/ /\ loop.f \in dir
          /\ dir' = dir \cup {ImageBase(k) : k \in ImagesOf(loop.doc)}
          /\ loop' = [loop EXCEPT !.pc = "transform"]
       \/ /\ dir' = dir
          /\ loop' = [loop EXCEPT !.pc = "cleanup"]
    /\ UNCHANGED <<store, dirty, nextIngest, thr, hist, pure>>

\* a loop over the elements that stores each Document as soon as it is made: the
\* first one is in the collection when a later table summary fails
UploadTransformEager ==
    /\ loop.op = "upload" /\ loop.pc = "transform"
    /\ \/ /\ HasTable(loop.doc)
          /\ loop' = [loop EXCEPT !.pc = "cleanup"]
          /\ LET c == sanitize_filename_for_collection(loop.f)
                 made == documents_to_embed(loop.doc, loop.f, {})
             IN  store' = [store EXCEPT ![c] = @ \cup {Entry(made[1], nextIngest, 1, loop.f)}]
       \/ /\ \E imgFail \in SUBSET ImagesOf(loop.doc) :
               /\ \A k \in ImagesOf(loop.doc) : ImageBase(k) \notin dir => k \in imgFail
               /\ loop' = [loop EXCEPT !.pc = "open", !.failed = imgFail,
                                       !.embed = documents_to_embed(loop.doc, loop.f, imgFail)]
          /\ store' = store
    /\ UNCHANGED <<dir, dirty, nextIngest, thr, hist, pure>>

\* the loop over the elements and the text splitter: a table summary that fails
\* raises, an image that fails is skipped
UploadTransform ==
    /\ loop.op = "upload" /\ loop.pc = "transform"
    /\ \/ /\ HasTable(loop.doc)
          /\ loop' = [loop EXCEPT !.pc = "cleanup"]
       \/ \E imgFail \in SUBSET ImagesOf(loop.doc) :
            /\ \A k \in ImagesOf(loop.doc) : ImageBase(k) \notin dir => k \in imgFail
            /\ loop' = [loop EXCEPT !.pc = "open", !.failed = imgFail,
                                    !.embed = documents_to_embed(loop.doc, loop.f, imgFail)]
    /\ UNCHANGED <<dir, store, dirty, nextIngest, thr, hist, pure>>

\* collection_name = sanitize_filename_for_collection(filename); Chroma(...)
UploadOpenStore ==
    /\ loop.op = "upload" /\ loop.pc = "open"
    /\ \/ loop' = [loop EXCEPT !.pc = "add"]
       \/ loop' = [loop EXCEPT !.pc = "cleanup"]
    /\ UNCHANGED <<dir, store, dirty, nextIngest, thr, hist, pure>>

\* the entries that add_documents has written when it has stored k Documents
Added(embed, k, n, filename) == {Entry(embed[i], n, i, filename) : i \in 1..k}

\* vector_store.add_documents(documents_to_embed): all are stored, or it raises
\* with a part of them stored (there is no rollback)
UploadAdd ==
    /\ loop.op = "upload" /\ loop.pc = "add"
    /\ LET c == sanitize_filename_for_collection(loop.f)
       IN  \E k \in 0..Len(loop.embed) :
             /\ store' = [store EXCEPT ![c] = @ \cup Added(loop.embed, k, nextIngest, loop.f)]
             /\ dirty' = IF k > 0 THEN dirty \cup {c} ELSE dirty
             /\ loop' = [loop EXCEPT !.n = nextIngest, !.calls = Append(@, "add"),
                                     !.pc = IF k = Len(loop.embed) THEN "persist" ELSE "cleanup"]
    /\ nextIngest' = nextIngest + 1
    /\ UNCHANGED <<dir, thr, hist, pure>>

\* vector_store.persist(), then the 201 response
UploadPersist ==
    /\ loop.op = "upload" /\ loop.pc = "persist"
    /\ \/ /\ dirty' = dirty \ {sanitize_filename_for_collection(loop.f)}
          /\ loop' = [loop EXCEPT !.pc = "done", !.status = 201, !.calls = Append(@, "persist")]
          /\ Outcome(loop.f, "ingested")
       \/ /\ dirty' = dirty
          /\ loop' = [loop EXCEPT !.pc = "cleanup", !.calls = Append(@, "persist")]
          /\ UNCHANGED hist
    /\ UNCHANGED <<dir, store, nextIngest, thr, pure>>

\* except Exception: os.remove(file_path); raise HTTPException(500).  If the file
\* is gone os.remove raises, which is a 500 response too.
UploadCleanup ==
    /\ loop.op = "upload" /\ loop.pc = "cleanup"
    /\ dir' = dir \ {loop.f}
    /\ LoopReturns(500)
    /\ Outcome(loop.f, "failed")
    /\ UNCHANGED <<store, dirty, nextIngest, thr, pure>>

(***************************************************************************)
(* query_document (api.py) with create_rag_chain (rag_pipeline.py).        *)
(***************************************************************************)
IdLess(a, b) == a[1] < b[1] \/ (a[1] = b[1] /\ a[2] < b[2])

RECURSIVE Ascending(_)
Ascending(S) ==
    IF S = {} THEN <<>>
    ELSE LET m == CHOOSE e \in S : \A o \in S : o = e \/ IdLess(e.id, o.id)
         IN  <<m>> \o Ascending(S \ {m})

Reverse(s) == [i \in 1..Len(s) |-> s[Len(s) + 1 - i]]

\* the order of the entries by embedding similarity to query q
SimilarityOrder(S, q) == IF q % 2 = 1 THEN Ascending(S) ELSE Reverse(Ascending(S))

\* a retriever that returns the whole collection
retriever_all(S, q) == SimilarityOrder(S, q)

\* vector_store.as_retriever(search_kwargs={"k": 25}): the k nearest entries
retriever(S, q) == Take(SimilarityOrder(S, q), RETRIEVER_K)

\* CROSS_ENCODER_MODEL.predict on the pair (query q, entry e)
CrossEncoderScore(q, e) == IF q % 2 = 1 THEN e.id[2] % (MaxScore + 1) ELSE 0

\* 404 unless the file exists in the upload directory
QueryStart(f, q) ==
    /\ loop.op = "idle"
    /\ loop' = [IdleLoop EXCEPT !.op = "query", !.f = f, !.q = q,
                                !.pc = IF f \notin dir THEN "done" ELSE "retrieve",
                                !.status = IF f \notin dir THEN 404 ELSE 0]
    /\ UNCHANGED <<dir, store, dirty, nextIngest, thr, hist, pure>>

\* create_rag_chain opens the collection of the file name; the chain's first
\* stage is the retriever.  Any exception is a 500 response.
QueryRetrieve ==
    /\ loop.op = "query" /\ loop.pc = "retrieve"
    /\ \/ loop' = [loop EXCEPT !.pc = "rerank", !.calls = Append(@, "retrieve"),
              !.cands = retriever(store[sanitize_filename_for_collection(loop.f)], loop.q)]
       \/ LoopReturns(500)
    /\ UNCHANGED <<dir, store, dirty, nextIngest, thr, hist, pure>>

\* pairs = [[query, doc.page_content] for doc in docs], as <<query, id>>
pairs(q, docs) == [i \in 1..Len(docs) |-> <<q, docs[i].id>>]

\* rerank_docs on the retrieved candidates; scored (history): the pairs given to
\* CROSS_ENCODER_MODEL.predict
QueryRerank ==
    /\ loop.op = "query" /\ loop.pc = "rerank"
    /\ \/ loop' = [loop EXCEPT !.pc = "generate", !.calls = Append(@, "rerank"),
              !.scored = pairs(loop.q, loop.cands),
              !.ctx = rerank_docs(loop.cands,
                          [i \in 1..Len(loop.cands) |-> CrossEncoderScore(loop.q, loop.cands[i])])]
       \/ LoopReturns(500)
    /\ UNCHANGED <<dir, store, dirty, nextIngest, thr, hist, pure>>

\* a chain that invokes the text-generation model again when it has failed once
QueryGenerateRetry ==
    /\ loop.op = "query" /\ loop.pc = "generate"
    /\ \/ loop' = [loop EXCEPT !.pc = "done", !.status = 200, !.llm = @ + 1,
                                !.calls = Append(@, "generate")]
       \/ loop' = [loop EXCEPT !.pc = IF loop.llm = 0 THEN "generate" ELSE "done",
                                !.status = IF loop.llm = 0 THEN 0 ELSE 500,
                                !.llm = @ + 1, !.calls = Append(@, "generate")]
    /\ UNCHANGED <<dir, store, dirty, nextIngest, thr, hist, pure>>

\* rag_prompt | llm | StrOutputParser(): one call of the text-generation model;
\* its answer is returned, its failure is a 500 response
QueryGenerate ==
    /\ loop.op = "query" /\ loop.pc = "generate"
    /\ \/ loop' = [loop EXCEPT !.pc = "done", !.status = 200, !.llm = @ + 1,
                                !.calls = Append(@, "generate")]
       \/ loop' = [loop EXCEPT !.pc = "done", !.status = 500, !.llm = @ + 1,
                                !.calls = Append(@, "generate")]
    /\ UNCHANGED <<dir, store, dirty, nextIngest, thr, hist, pure>>

(***************************************************************************)
(* delete_document (api.py) with delete_document_vectors (rag_pipeline.py).*)
(***************************************************************************)
\* the call's record when it returns or raises with this status; the status is 200
\* exactly when delete_document_vectors has returned, and it returns None
ThreadDone(rec, status, caught) ==
    [rec EXCEPT !.pc = "done", !.status = status, !.caught = caught,
                !.ret = IF status = 200 THEN "None" ELSE "unset"]

\* the call's record with one more store call made
WithCall(rec, call) == [rec EXCEPT !.calls = Append(@, call)]

ThreadReturns(t, status, caught) == thr' = [thr EXCEPT ![t] = ThreadDone(thr[t], status, caught)]

\* the response is sent and the thread goes back to the pool
ThreadRelease(t) ==
    /\ thr[t].pc = "done"
    /\ thr' = [thr EXCEPT ![t] = IdleThread]
    /\ hist' = IF thr[t].ing /\ thr[t].status = 200 /\ ~thr[t].caught /\ hist[thr[t].f] = "none"
               THEN [hist EXCEPT ![thr[t].f] = "deleted"]
               ELSE hist
    /\ UNCHANGED <<dir, store, dirty, nextIngest, loop, pure>>

\* 404 unless the file exists in the upload directory
DeleteStart(t, f) ==
    /\ thr[t].pc = "idle"
    /\ thr' = [thr EXCEPT ![t] = [IdleThread EXCEPT !.f = f,
                                     !.ing = (f \in Filenames /\ hist[f] = "ingested"),
                                     !.pc = IF f \notin dir THEN "done" ELSE "remove",
                                     !.status = IF f \notin dir THEN 404 ELSE 0]]
    /\ UNCHANGED <<dir, store, dirty, nextIngest, loop, hist, pure>>

\* Step 1: os.remove(file_path); if the file is gone by now it raises: 500
DeleteRemove(t) ==
    /\ thr[t].pc = "remove"
    /\ IF thr[t].f \in dir
       THEN /\ dir' = dir \ {thr[t].f}
            /\ hist' = [f \in Filenames |-> IF f = thr[t].f THEN "none" ELSE hist[f]]
            /\ thr' = [thr EXCEPT ![t].pc = "get"]
       ELSE /\ ThreadReturns(t, 500, FALSE)
            /\ UNCHANGED <<dir, hist>>
    /\ UNCHANGED <<store, dirty, nextIngest, loop, pure>>

\* Step 2, delete_document_vectors: Chroma(...) and vector_store.get; an
\* exception is printed and swallowed; an empty collection returns at once
DeleteGet(t) ==
    /\ thr[t].pc = "get"
    /\ LET all_docs == store[sanitize_filename_for_collection(thr[t].f)]
       IN  \/ /\ all_docs # {}
              /\ thr' = [thr EXCEPT ![t] = WithCall([@ EXCEPT !.pc = "delete", !.snap = all_docs], "get")]
           \/ /\ all_docs = {}
              /\ thr' = [thr EXCEPT ![t] = ThreadDone(WithCall(@, "get"), 200, FALSE)]
           \/ ThreadReturns(t, 200, TRUE)
    /\ UNCHANGED <<dir, store, dirty, nextIngest, loop, hist, pure>>

\* the ids whose metadata source equals the file name
ids_to_delete(all_docs, filename) == {e.id : e \in {d \in all_docs : d.source = filename}}

\* a deletion that empties every collection of the persist directory
DeleteVectorsWipe(t) ==
    /\ thr[t].pc = "delete"
    /\ store' = [c \in CollNames |-> {}]
    /\ dirty' = dirty \cup {sanitize_filename_for_collection(thr[t].f)}
    /\ thr' = [thr EXCEPT ![t] = WithCall([@ EXCEPT !.pc = "persist"], "delete")]
    /\ UNCHANGED <<dir, nextIngest, loop, hist, pure>>

\* vector_store.delete(ids=ids_to_delete) when there are any
DeleteVectors(t) ==
    /\ thr[t].pc = "delete"
    /\ LET c == sanitize_filename_for_collection(thr[t].f)
           ids == ids_to_delete(thr[t].snap, thr[t].f)
       IN  \/ /\ ids # {}
              /\ store' = [store EXCEPT ![c] = {e \in @ : e.id \notin ids}]
              /\ dirty' = dirty \cup {c}
              /\ thr' = [thr EXCEPT ![t] = WithCall([@ EXCEPT !.pc = "persist"], "delete")]
           \/ /\ ids # {}
              /\ thr' = [thr EXCEPT ![t] = ThreadDone(WithCall(@, "delete"), 200, TRUE)]
              /\ UNCHANGED <<store, dirty>>
           \/ /\ ids = {}
              /\ ThreadReturns(t, 200, FALSE)
              /\ UNCHANGED <<store, dirty>>
    /\ UNCHANGED <<dir, nextIngest, loop, hist, pure>>

\* vector_store.persist() after the delete; an exception is printed and swallowed
DeletePersist(t) ==
    /\ thr[t].pc = "persist"
    /\ \/ /\ dirty' = dirty \ {sanitize_filename_for_collection(thr[t].f)}
          /\ thr' = [thr EXCEPT ![t] = ThreadDone(WithCall(@, "persist"), 200, FALSE)]
       \/ /\ dirty' = dirty
          /\ thr' = [thr EXCEPT ![t] = ThreadDone(WithCall(@, "persist"), 200, TRUE)]
    /\ UNCHANGED <<dir, store, nextIngest, loop, hist, pure>>

(***************************************************************************)
(* The service.                                                            *)
(***************************************************************************)
Next ==
    \/ \E f \in UserFilenames, doc \in Docs : UploadStart(f, doc)
    \/ UploadSave
    \/ UploadPartition
    \/ UploadTransform
    \/ UploadOpenStore
    \/ UploadAdd
    \/ UploadPersist
    \/ UploadCleanup
    \/ \E f \in AllNames, q \in Queries : QueryStart(f, q)
    \/ QueryRetrieve
    \/ QueryRerank
    \/ QueryGenerate
    \/ LoopRelease
    \/ \E t \in Threads, f \in AllNames : DeleteStart(t, f)
    \/ \E t \in Threads : DeleteRemove(t)
    \/ \E t \in Threads : DeleteGet(t)
    \/ \E t \in Threads : DeleteVectors(t)
    \/ \E t \in Threads : DeletePersist(t)
    \/ \E t \in Threads : ThreadRelease(t)

Spec == Init /\ [][Next]_vars

(***************************************************************************)
(* Specification of ingestion alone: uploads of documents with several     *)
(* images, tables of different sizes and texts of several pages, with no   *)
(* other request.                                                          *)
(***************************************************************************)
IngestDocs ==
    { <<TextEl(800), TextEl(900)>>,
      <<ImageEl, TableEl, ImageEl, TextEl(300), ImageEl>>,
      <<TableOf(5000)>>,
      <<TableOf(40), TextEl(1), TableEl>> }

InitIngest == SysInit /\ pure = [kind |-> "ingest"]

NextIngest ==
    \/ \E f \in UserFilenames, doc \in IngestDocs : UploadStart(f, doc)
    \/ UploadSave
    \/ UploadPartition
    \/ UploadTransform
    \/ UploadOpenStore
    \/ UploadAdd
    \/ UploadPersist
    \/ UploadCleanup
    \/ LoopRelease

SpecIngest == InitIngest /\ [][NextIngest]_vars

(***************************************************************************)
(* Specification of the writers: uploads and deletions of three file       *)
(* names, two of them with one collection, on the event loop and one pool  *)
(* thread, with no query.                                                  *)
(***************************************************************************)
\* the service starts on the directories of an earlier run in which a text
\* document named F_OTHER was uploaded with success
EarlierDoc == <<TextEl(800)>>

\* the documents uploaded in this run
StoreDocs == {<<TableEl, TextEl(300)>>}

EarlierEntries ==
    LET embed == documents_to_embed(EarlierDoc, F_OTHER, {})
    IN  Added(embed, Len(embed), 0, F_OTHER)

InitStore ==
    /\ dir = {F_OTHER}
    /\ store = [c \in CollNames |->
                  IF c = sanitize_filename_for_collection(F_OTHER) THEN EarlierEntries ELSE {}]
    /\ dirty = {}
    /\ nextIngest = 1
    /\ loop = IdleLoop
    /\ thr = [t \in Threads |-> IdleThread]
    /\ hist = [f \in Filenames |-> IF f = F_OTHER THEN "ingested" ELSE "none"]
    /\ pure = [kind |-> "store"]

NextStore ==
    \/ \E f \in Filenames, doc \in StoreDocs : nextIngest <= MaxStoreIngest /\ UploadStart(f, doc)
    \/ UploadSave
    \/ UploadPartition
    \/ UploadTransform
    \/ UploadOpenStore
    \/ UploadAdd
    \/ UploadPersist
    \/ UploadCleanup
    \/ LoopRelease
    \/ \E f \in Filenames : DeleteStart(1, f)
    \/ DeleteRemove(1)
    \/ DeleteGet(1)
    \/ DeleteVectors(1)
    \/ DeletePersist(1)
    \/ ThreadRelease(1)

SpecStore == InitStore /\ [][NextStore]_vars

(***************************************************************************)
(* Specification of the queries: the service starts on the directories of  *)
(* an earlier run in which a text document named F_OTHER was uploaded, of  *)
(* any number of chunks up to MaxColl (none: the upload failed and left    *)
(* its file); queries for it and for a file name that does not exist.      *)
(***************************************************************************)
\* a text document that the splitter cuts into n chunks
SizedDoc(n) ==
    IF n = 0 THEN <<>> ELSE <<TextEl(CHUNK_SIZE + (n - 1) * (CHUNK_SIZE - CHUNK_OVERLAP))>>

SizedEntries(n) ==
    LET embed == documents_to_embed(SizedDoc(n), F_OTHER, {})
    IN  Added(embed, Len(embed), 0, F_OTHER)

InitQuery ==
    /\ dir = {F_OTHER}
    /\ \E n \in 0..MaxColl :
          /\ store = [c \in CollNames |->
                        IF c = sanitize_filename_for_collection(F_OTHER)
                        THEN SizedEntries(n) ELSE {}]
          /\ hist = [f \in Filenames |->
                       IF f # F_OTHER THEN "none" ELSE IF n = 0 THEN "failed" ELSE "ingested"]
    /\ dirty = {}
    /\ nextIngest = 1
    /\ loop = IdleLoop
    /\ thr = [t \in Threads |-> IdleThread]
    /\ pure = [kind |-> "query"]

NextQuery ==
    \/ \E f \in {F_OTHER, F_DOT}, q \in Queries : QueryStart(f, q)
    \/ QueryRetrieve
    \/ QueryRerank
    \/ QueryGenerate
    \/ LoopRelease

SpecQuery == InitQuery /\ [][NextQuery]_vars

(***************************************************************************)
(* Specification of deleting and uploading again: one file, of a table, an *)
(* image and text, uploaded under one file name and deleted, on the event  *)
(* loop and one pool thread.                                               *)
(***************************************************************************)
RecreateDoc == <<TableEl, ImageEl, TextEl(300)>>

InitRecreate == SysInit /\ pure = [kind |-> "recreate"]

NextRecreate ==
    \/ UploadStart(F_DOT, RecreateDoc)
    \/ UploadSave
    \/ UploadPartition
    \/ UploadTransform
    \/ UploadOpenStore
    \/ UploadAdd
    \/ UploadPersist
    \/ UploadCleanup
    \/ LoopRelease
    \/ DeleteStart(1, F_DOT)
    \/ DeleteRemove(1)
    \/ DeleteGet(1)
    \/ DeleteVectors(1)
    \/ DeletePersist(1)
    \/ ThreadRelease(1)

SpecRecreate == InitRecreate /\ [][NextRecreate]_vars

(***************************************************************************)
(* Specification of the vector store behind Chroma(collection_name=...,    *)
(* persist_directory=...): the collections of the persist directory as a   *)
(* list, so that two collections of one name can be told apart; a handle   *)
(* is a position in the list.  The handlers construct a Chroma object per  *)
(* call and add one batch through it.                                      *)
(***************************************************************************)
Batches == {{"x"}, {"x", "y"}}

InitAdapter ==
    /\ SysInit
    /\ pure = [kind |-> "adapter", colls |-> <<>>, handles |-> <<>>, log |-> <<>>]

\* positions of the collections of this name
Named(colls, name) == {i \in 1..Len(colls) : colls[i].name = name}

\* an open that makes a new collection whether or not one of the name exists
open_always_create(colls, name) ==
    [colls |-> Append(colls, [name |-> name, entries |-> {}]), handle |-> Len(colls) + 1]

\* the collection of this name, made empty when there is none
open_or_create(colls, name) ==
    IF Named(colls, name) # {}
    THEN [colls |-> colls, handle |-> CHOOSE i \in Named(colls, name) : TRUE]
    ELSE [colls |-> Append(colls, [name |-> name, entries |-> {}]), handle |-> Len(colls) + 1]

\* Chroma(collection_name=sanitize_filename_for_collection(filename), ...)
AdapterOpen(name) ==
    /\ pure.kind = "adapter"
    /\ Len(pure.handles) < MaxOpens
    /\ LET r == open_or_create(pure.colls, name)
       IN  pure' = [pure EXCEPT !.colls = r.colls, !.handles = Append(@, r.handle)]
    /\ UNCHANGED sysVars

\* vector_store.add_documents(batch) through the h-th handle: every Document gets
\* an id of its own
AdapterAdd(h, batch) ==
    /\ pure.kind = "adapter"
    /\ h \in 1..Len(pure.handles)
    /\ Len(pure.log) < MaxAdds
    /\ LET k == Len(pure.log) + 1
           c == pure.handles[h]
       IN  pure' = [pure EXCEPT !.colls[c].entries = @ \cup {<<k, d>> : d \in batch},
                                !.log = Append(@, [name |-> pure.colls[c].name, batch |-> batch])]
    /\ UNCHANGED sysVars

NextAdapter ==
    \/ \E f \in Filenames : AdapterOpen(sanitize_filename_for_collection(f))
    \/ \E h \in 1..MaxOpens, batch \in Batches : AdapterAdd(h, batch)

SpecAdapter == InitAdapter /\ [][NextAdapter]_vars

(***************************************************************************)
(* Specification of collection naming alone: two filenames over a small    *)
(* alphabet; sanitize_filename_for_collection is called on the first       *)
(* repeatedly and on the second once, and the results are recorded.        *)
(***************************************************************************)
Chars == {"a", " ", ".", "_"}

InitName ==
    /\ SysInit
    /\ pure \in {[kind |-> "name", f |-> f, g |-> g, resF |-> <<>>, resG |-> <<>>] :
                    f \in SeqsUpTo(Chars, MaxNameLen), g \in SeqsUpTo(Chars, MaxNameLen)}

NameCallF ==
    /\ pure.kind = "name"
    /\ Len(pure.resF) < MaxCalls
    /\ pure' = [pure EXCEPT !.resF = Append(@, sanitize_filename_for_collection(pure.f))]
    /\ UNCHANGED sysVars

NameCallG ==
    /\ pure.kind = "name"
    /\ pure.resG = <<>>
    /\ pure' = [pure EXCEPT !.resG = <<sanitize_filename_for_collection(pure.g)>>]
    /\ UNCHANGED sysVars

NextName == NameCallF \/ NameCallG

SpecName == InitName /\ [][NextName]_vars

(***************************************************************************)
(* Specification of re-ranking alone: a list of Stage-1 candidates, given  *)
(* by their cross-encoder scores, is re-ranked once.  A candidate is named *)
(* by its Stage-1 position.                                                *)
(***************************************************************************)
InitRerank ==
    /\ SysInit
    /\ pure \in {[kind |-> "rerank", scores |-> sc, out |-> <<>>, called |-> FALSE] :
                    sc \in SeqsUpTo(0..MaxScore, MaxCands)}

RerankCall ==
    /\ pure.kind = "rerank"
    /\ ~pure.called
    /\ pure' = [pure EXCEPT !.called = TRUE,
                            !.out = rerank_docs([i \in 1..Len(pure.scores) |-> i], pure.scores)]
    /\ UNCHANGED sysVars

NextRerank == RerankCall

SpecRerank == InitRerank /\ [][NextRerank]_vars

(***************************************************************************)
(* Properties.                                                             *)
(***************************************************************************)
\* C1: every identifier returned for filename f is "rag_" followed by f with each
\* space and each period replaced by an underscore and every other character
\* unchanged, and repeated calls on f return the same identifier.
C1_NamingRule ==
    pure.kind = "name" =>
        /\ \A k \in 1..Len(pure.resF) :
             LET r == pure.resF[k]
             IN  /\ Len(r) = 4 + Len(pure.f)
                 /\ r[1] = "r" /\ r[2] = "a" /\ r[3] = "g" /\ r[4] = "_"
                 /\ \A i \in 1..Len(pure.f) :
                      r[4 + i] = IF pure.f[i] \in {" ", "."} THEN "_" ELSE pure.f[i]
        /\ \A j, k \in 1..Len(pure.resF) : pure.resF[j] = pure.resF[k]

\* C1 witness: two calls have returned for a filename with a space and a period
C1_Witness ==
    /\ pure.kind = "name"
    /\ Len(pure.resF) = 2
    /\ \E i, j \in 1..Len(pure.f) : pure.f[i] = " " /\ pure.f[j] = "."

\* C2: two distinct filenames never get the same collection identifier.
C2_Injective ==
    (pure.kind = "name" /\ pure.resF # <<>> /\ pure.resG # <<>> /\ pure.f # pure.g)
        => pure.resF[1] # pure.resG[1]

\* C7: from at least 5 candidates rerank_docs returns exactly 5 distinct ones, each
\* scored at least as high as every excluded one, in descending score order, and
\* candidates of equal score keep their Stage-1 order (also across the cut).
C7_TopK ==
    (pure.kind = "rerank" /\ pure.called /\ Len(pure.scores) >= 5) =>
        LET sc == pure.scores
            out == pure.out
            kept == Range(out)
        IN  /\ Len(out) = 5
            /\ kept \subseteq 1..Len(sc)
            /\ Cardinality(kept) = 5
            /\ \A i \in kept, j \in (1..Len(sc)) \ kept :
                 sc[i] >= sc[j] /\ (sc[i] = sc[j] => i < j)
            /\ \A p, q \in 1..Len(out) :
                 p < q => (sc[out[p]] >= sc[out[q]] /\ (sc[out[p]] = sc[out[q]] => out[p] < out[q]))

\* C7 witness: six candidates were re-ranked, and one was cut that ties with a kept one
C7_Witness ==
    /\ pure.kind = "rerank" /\ pure.called
    /\ Len(pure.scores) = 6
    /\ \E i \in Range(pure.out), j \in (1..6) \ Range(pure.out) : pure.scores[i] = pure.scores[j]

\* C25: for fewer than 5 candidates rerank_docs returns every candidate exactly
\* once, none other, in descending order of score, equal scores in Stage-1 order.
C25_FewCandidates ==
    (pure.kind = "rerank" /\ pure.called /\ Len(pure.scores) < 5) =>
        LET sc == pure.scores
            out == pure.out
        IN  /\ Len(out) = Len(sc)
            /\ Range(out) = 1..Len(sc)
            /\ \A p, q \in 1..Len(out) :
                 p < q => (sc[out[p]] >= sc[out[q]] /\ (sc[out[p]] = sc[out[q]] => out[p] < out[q]))

\* four candidates were re-ranked, two of them tie, and the order has changed
C25_Witness ==
    /\ pure.kind = "rerank" /\ pure.called
    /\ Len(pure.scores) = 4 /\ Len(pure.out) = 4
    /\ pure.out # <<1, 2, 3, 4>>
    /\ \E i, j \in 1..4 : i # j /\ pure.scores[i] = pure.scores[j]

\* the collection of a file name
CollectionOf(f) == store[sanitize_filename_for_collection(f)]

\* thread t's delete_document call returns 200 in this step
DeleteSucceeds(t) ==
    thr[t].pc \notin {"idle", "done"} /\ thr'[t].pc = "done" /\ thr'[t].status = 200

\* an upload_file call for f has passed the exists-check and not yet finished persist()
UploadInFlight(f) ==
    /\ loop.op = "upload" /\ loop.f = f
    /\ loop.pc \in {"save", "partition", "transform", "open", "add", "persist"}

\* C3: every chunk that a query against filename f passes to re-ranking and to
\* answer synthesis was stored by the ingestion of f, never by that of another file.
\* Stated for the queries against a filename that is ingested and not deleted.
C3_NoCrossDocument ==
    (loop.op = "query" /\ loop.f \in UserFilenames /\ hist[loop.f] = "ingested") =>
        /\ \A i \in 1..Len(loop.cands) : loop.cands[i].origin = loop.f
        /\ \A i \in 1..Len(loop.ctx) : loop.ctx[i].origin = loop.f

\* C4: when delete_document answers with success (delete_document_vectors has
\* returned), the collection of the filename holds no entry whose source is it.
\* Stated for the deletions of a document that was ingested when they began.
C4_DeletionComplete ==
    [][\A t \in Threads :
         (DeleteSucceeds(t) /\ thr[t].ing) => \A e \in CollectionOf(thr[t].f)' : e.source # thr[t].f]_vars

\* C5: when a document has been deleted its collection holds no chunk at all.
\* Stated for the deletions of a document that was ingested when they began, in
\* which no store call raised.
C5_DeleteEmptiesCollection ==
    [][\A t \in Threads :
         (DeleteSucceeds(t) /\ thr[t].ing /\ ~thr'[t].caught) => CollectionOf(thr[t].f)' = {}]_vars

\* C6: the text-generation model is invoked, and an answer returned, only for a
\* filename that was ingested and whose vectors were not deleted since.
C6_NotFoundNeverAnswered ==
    (loop.op = "query" /\ (loop.pc = "generate" \/ loop.llm > 0 \/ loop.status = 200))
        => (loop.f \in UserFilenames /\ hist[loop.f] = "ingested")

\* C8: no delete_document for f removes the file or deletes vectors while an
\* upload_file for f is between its exists-check and the end of persist().
C8_WritersSerialized ==
    [][\A t \in Threads :
         (\/ thr[t].pc = "remove" /\ thr'[t].pc = "get"
          \/ thr[t].pc = "delete" /\ thr'[t].pc = "persist")
            => ~UploadInFlight(thr[t].f)]_vars

\* C9: when upload_file for f has ended in an error other than 409, no file named
\* f exists in the upload directory.
C9_NoStrayFile ==
    (loop.op = "upload" /\ loop.pc = "done" /\ loop.status = 500) => loop.f \notin dir

\* C10: an upload of f that follows a failed upload of f is not rejected as
\* existing, and when it succeeds the collection of f holds exactly the entries
\* that this one ingestion stored.
C10_CleanRetry ==
    [][/\ \A f \in UserFilenames :
            (loop.op = "idle" /\ hist[f] = "failed" /\ loop'.op = "upload" /\ loop'.f = f)
                => loop'.status # 409
       /\ (loop.op = "upload" /\ hist[loop.f] = "failed" /\ loop.pc = "persist"
              /\ loop'.pc = "done" /\ loop'.status = 201)
            => CollectionOf(loop.f)' = Added(loop.embed, Len(loop.embed), loop.n, loop.f)]_vars

(***************************************************************************)
(* Properties of ingestion.                                                *)
(***************************************************************************)
\* positions of the Documents of one type in a list to embed
OfType(embed, type) == {i \in 1..Len(embed) : embed[i].type = type}

\* positions of the elements of one kind in a document
OfKind(doc, kind) == {i \in 1..Len(doc) : doc[i].kind = kind}

\* the entries that the ingestion in progress has stored
StoredByThis == {e \in CollectionOf(loop.f) : e.id[1] = loop.n}

\* C11: an image that fails is skipped and nothing else: the element loop never
\* raises for a document without a table, the list to embed holds one
\* image_description per image that did not fail and none for one that failed,
\* one table_summary per table and every text chunk, and an ingestion that ends
\* with 201 has stored all of them.
C11_ImageSkipOnly ==
    /\ [][(loop.op = "upload" /\ loop.pc = "transform" /\ ~HasTable(loop.doc))
             => loop'.pc \in {"transform", "open"}]_vars
    /\ [](  (loop.op = "upload" /\ loop.pc \in {"open", "add", "persist"})
            => /\ Cardinality(OfType(loop.embed, "image_description"))
                    = Cardinality(ImagesOf(loop.doc) \ loop.failed)
               /\ \A k \in ImagesOf(loop.doc) :
                    (k \notin loop.failed) <=>
                        \E i \in OfType(loop.embed, "image_description") :
                            loop.embed[i].source = PathJoin(ImageBase(k))
               /\ Cardinality(OfType(loop.embed, "table_summary"))
                    = Cardinality(OfKind(loop.doc, "Table"))
               /\ Cardinality(OfType(loop.embed, "text"))
                    = Len(split_text(RawTextLen(loop.doc, 1))))
    /\ [](  (loop.op = "upload" /\ loop.pc = "done" /\ loop.status = 201)
            => \A i \in 1..Len(loop.embed) :
                 \E e \in StoredByThis :
                    /\ e.id[2] = i /\ e.type = loop.embed[i].type
                    /\ e.source = loop.embed[i].source /\ e.content = loop.embed[i].content)

\* one of three images failed: the upload ended with 201 and two descriptions,
\* the table summary and the text chunk are stored
C11_Witness ==
    /\ loop.op = "upload" /\ loop.pc = "done" /\ loop.status = 201
    /\ Cardinality(ImagesOf(loop.doc)) = 3
    /\ Cardinality(loop.failed) = 1
    /\ Cardinality({e \in StoredByThis : e.type = "image_description"}) = 2
    /\ Cardinality({e \in StoredByThis : e.type = "table_summary"}) = 1
    /\ Cardinality({e \in StoredByThis : e.type = "text"}) = 1

\* C12: when partitioning or a table summary fails, process_and_store_document
\* raises with no entry of this ingestion in any collection and no store call
\* made; before the element loop has ended the handler has written nothing.
C12_FatalNoPartialWrite ==
    /\ [][(loop.op = "upload" /\ loop.pc \in {"partition", "transform"}
              /\ loop'.pc = "cleanup")
             => /\ store' = store
                /\ loop'.calls = <<>>
                /\ \A c \in CollNames : \A e \in store'[c] : e.id[1] # nextIngest']_vars
    /\ [](  (loop.op = "upload" /\ loop.pc \in {"save", "partition", "transform", "open"})
            => /\ loop.calls = <<>>
               /\ \A c \in CollNames : \A e \in store[c] : e.id[1] # nextIngest)

\* a table summary has failed in a document with a table: the handler is about to
\* remove the file, the document has a table and nothing of it is stored
C12_Witness ==
    /\ loop.op = "upload" /\ loop.pc = "cleanup" /\ loop.n = 0
    /\ loop.f \in dir
    /\ HasTable(loop.doc)
    /\ \A c \in CollNames : \A e \in store[c] : e.id[1] # nextIngest

\* C13: an upload_file for a file name that exists in the upload directory
\* answers 409 at once, never reaches process_and_store_document, and the
\* directory and every collection are the same when the response is sent.
C13_ReingestRejected ==
    /\ [][(loop.op = "idle" /\ loop'.op = "upload" /\ loop'.f \in dir)
             => /\ loop'.pc = "done" /\ loop'.status = 409
                /\ loop'.embed = <<>> /\ loop'.calls = <<>>
                /\ dir' = dir /\ store' = store]_vars
    /\ [][(loop.op = "upload" /\ loop.status = 409)
             => /\ loop'.op = "idle"
                /\ dir' = dir /\ store' = store]_vars

\* the second upload of an ingested file name was rejected, its file and its
\* chunks are there
C13_Witness ==
    /\ loop.op = "upload" /\ loop.pc = "done" /\ loop.status = 409
    /\ hist[loop.f] = "ingested"
    /\ loop.f \in dir
    /\ CollectionOf(loop.f) # {}

\* an upload has ended with 201
UploadSucceeded == loop.op = "upload" /\ loop.pc = "done" /\ loop.status = 201

\* C19: after a successful ingestion the collection holds, of this ingestion, as
\* many table_summary chunks as the document has Table elements: for every
\* table exactly one, whose content is the summary of that table and whose
\* source is the file name, whatever the size of the table.
C19_OneSummaryPerTable ==
    UploadSucceeded =>
        LET summaries == {e \in StoredByThis : e.type = "table_summary"}
        IN  /\ Cardinality(summaries) = Cardinality(OfKind(loop.doc, "Table"))
            /\ \A e \in summaries : e.source = loop.f
            /\ \A i \in OfKind(loop.doc, "Table") :
                    Cardinality({e \in summaries : e.content = <<"summary", i, 0>>}) = 1

\* a document of one table of 5000 characters was ingested, and one summary stored
C19_Witness ==
    /\ UploadSucceeded
    /\ loop.doc = <<TableOf(5000)>>
    /\ Cardinality({e \in StoredByThis : e.type = "table_summary"}) = 1

\* C20: after a successful ingestion of a document of text elements only, every
\* chunk that it stored is tagged text, has the file name as source and at most
\* 750 characters, and is in the collection of the sanitized name ("a.b" gives
\* "rag_a_b") and in no other.
C20_TextOnly ==
    (UploadSucceeded /\ OfKind(loop.doc, "Text") = 1..Len(loop.doc)) =>
        /\ Cardinality(StoredByThis) = Len(loop.embed) /\ Len(loop.embed) > 0
        /\ \A e \in StoredByThis :
              e.type = "text" /\ e.source = loop.f /\ e.content[3] <= 750
        /\ \A c \in CollNames :
              (\E e \in store[c] : e.id[1] = loop.n)
                 => c = sanitize_filename_for_collection(loop.f)
        /\ loop.f = F_DOT => \E e \in store[<<"r", "a", "g", "_", "a", "_", "b">>] : e.id[1] = loop.n

\* the text of two elements, 1702 characters, was ingested as "a.b": three text
\* chunks are in "rag_a_b"
C20_Witness ==
    /\ UploadSucceeded
    /\ loop.f = F_DOT
    /\ loop.doc = <<TextEl(800), TextEl(900)>>
    /\ Cardinality({e \in store[<<"r", "a", "g", "_", "a", "_", "b">>] :
                        e.id[1] = loop.n /\ e.type = "text"}) = 3

(***************************************************************************)
(* Properties of the writers.                                              *)
(***************************************************************************)
\* delete_document_vectors returns in this step, and the collection of its file
\* name holds no entry whose source is the file name
NoMatchReturn(t) ==
    /\ thr[t].pc \in {"get", "delete"} /\ thr'[t].pc = "done"
    /\ ids_to_delete(CollectionOf(thr[t].f), thr[t].f) = {}

\* C14: when a store call fails inside delete_document_vectors, delete_document
\* does not answer with success.
C14_StoreFailureSurfaced ==
    \A t \in Threads : (thr[t].pc = "done" /\ thr[t].caught) => thr[t].status # 200

\* C15: when delete_document_vectors returns for a file name of which the
\* collection holds no entry, it has raised nothing, it has changed no
\* collection, it has made no delete call, and it returns the count zero.
C15_NoMatchReturnsZero ==
    [][\A t \in Threads :
         NoMatchReturn(t)
            => /\ thr'[t].status = 200
               /\ store' = store
               /\ \A i \in 1..Len(thr'[t].calls) : thr'[t].calls[i] # "delete"
               /\ thr'[t].ret = "0"]_vars

\* C16: when upload_file's processing returns with success its last two store
\* calls are add_documents and persist(); when delete_document_vectors returns
\* after a delete, its last two store calls are delete and persist(); in both
\* cases the collection holds no mutation that is not persisted.
C16_PersistedBeforeReturn ==
    [][/\ (loop.op = "upload" /\ loop.pc # "done" /\ loop'.pc = "done" /\ loop'.status = 201)
            => /\ loop'.calls = <<"add", "persist">>
               /\ sanitize_filename_for_collection(loop.f) \notin dirty'
       /\ \A t \in Threads :
            (thr[t].pc = "persist" /\ thr'[t].pc = "done")
                => /\ thr'[t].calls = <<"get", "delete", "persist">>
                   /\ sanitize_filename_for_collection(thr[t].f) \notin dirty']_vars

\* C17: a step that changes the entries of a collection is a step of a request
\* for a file name of which this is the collection.
C17_OtherCollectionsUntouched ==
    [][\A c \in CollNames :
         store'[c] # store[c] =>
            IF loop' # loop
            THEN loop.op = "upload" /\ c = sanitize_filename_for_collection(loop.f)
            ELSE \E t \in Threads :
                    thr'[t] # thr[t] /\ c = sanitize_filename_for_collection(thr[t].f)]_vars

\* an ingestion and a deletion for the file names of one collection have both
\* written, and the collection of the third file name holds its entries
C17_Witness ==
    /\ \E t \in Threads :
          /\ thr[t].pc = "done" /\ thr[t].f \in UserFilenames
          /\ \E i \in 1..Len(thr[t].calls) : thr[t].calls[i] = "delete"
    /\ hist[F_DOT] # "none" \/ hist[F_SPACE] # "none"
    /\ store[sanitize_filename_for_collection(F_OTHER)] = EarlierEntries
    /\ EarlierEntries # {}

(***************************************************************************)
(* Properties of the life cycle of a document.                             *)
(***************************************************************************)
\* no request is in flight
Quiescent == loop.op = "idle" /\ \A t \in Threads : thr[t].pc = "idle"

\* some collection holds a chunk that the ingestion of f produced
HasChunksOf(f) == \E c \in CollNames : \E e \in store[c] : e.origin = f

\* C23: when no request is in flight, some collection holds a chunk produced by
\* the ingestion of f if and only if the file f exists in the upload directory.
C23_LifecycleConsistent ==
    Quiescent => \A f \in Filenames : HasChunksOf(f) <=> f \in dir

\* C24: when a file that was uploaded and then deleted is uploaded again under
\* the same name, the collection of the name holds exactly the chunks of this
\* last ingestion, each once.  Stated for an upload that began after a deletion
\* of the ingested document had ended with no store call raising, and during
\* which no deletion ran.
C24_RecreateEqualsFirst ==
    [][(loop.op = "upload" /\ loop.pc = "persist" /\ loop'.pc = "done" /\ loop'.status = 201
           /\ loop.prior = "deleted" /\ hist[loop.f] = "deleted")
         => CollectionOf(loop.f)' = Added(loop.embed, Len(loop.embed), loop.n, loop.f)]_vars

\* os.listdir(UPLOAD_DIRECTORY): what list_documents returns in this state
list_documents == dir

\* os.path.exists(os.path.join(UPLOAD_DIRECTORY, filename)) in query_document
path_exists(filename) == filename \in dir

\* an upload_file call for this name has not returned yet
UploadActive(name) == loop.op = "upload" /\ loop.f = name /\ loop.pc # "done"

\* the file name was uploaded and ingested with success and not deleted since
IngestedDocument(name) == name \in Filenames /\ hist[name] = "ingested"

\* C26: every name that list_documents returns, and every file name that passes
\* the existence check of query_document, is that of a document uploaded and
\* ingested with success and not deleted since.  Stated for the names other
\* than that of an upload in progress and that of the file of a failed upload.
C26_OnlyUserDocuments ==
    /\ \A name \in list_documents :
          (~UploadActive(name) /\ ~(name \in Filenames /\ hist[name] = "failed"))
             => IngestedDocument(name)
    /\ \A name \in Filenames \cup AllNames :
          (path_exists(name) /\ ~UploadActive(name)
                /\ ~(name \in Filenames /\ hist[name] = "failed"))
             => IngestedDocument(name)

(***************************************************************************)
(* Properties of the queries.                                              *)
(***************************************************************************)
\* C21: a query invokes the text-generation model at most once, and only after
\* the retriever and rerank_docs have returned, in that order; a query that is
\* answered has invoked it once; when the invocation fails the response is an
\* error and the model is not invoked again.
C21_GenerateOnce ==
    /\ [](loop.op = "query" =>
            /\ loop.llm <= 1
            /\ loop.llm = 1 => loop.calls = <<"retrieve", "rerank", "generate">>
            /\ loop.status = 200 => loop.llm = 1
            /\ (loop.pc = "done" /\ loop.llm = 1) => loop.status \in {200, 500})
    /\ [][(loop.op = "query" /\ loop'.op = "query" /\ loop'.llm # loop.llm)
             => /\ loop.calls = <<"retrieve", "rerank">>
                /\ loop'.llm = loop.llm + 1
                /\ loop'.pc = "done"]_vars
    /\ [][(loop.op = "query" /\ loop.pc = "done") => loop'.op = "idle"]_vars

\* the one invocation of the model has failed: the response is an error
C21_Witness ==
    /\ loop.op = "query" /\ loop.pc = "done"
    /\ loop.llm = 1 /\ loop.status = 500
    /\ Len(loop.cands) > 0

\* C22: whatever the size of the collection, rerank_docs gives the cross-encoder
\* one pair per Stage-1 candidate, at most 25 pairs, and the context of answer
\* synthesis has at most 5 chunks.
C22_BoundedRerank ==
    loop.op = "query" =>
        /\ Len(loop.cands) <= 25
        /\ Len(loop.scored) <= 25
        /\ Len(loop.ctx) <= 5
        /\ Len(loop.calls) >= 2
              => /\ Len(loop.scored) = Len(loop.cands)
                 /\ \A i \in 1..Len(loop.cands) : loop.scored[i] = <<loop.q, loop.cands[i].id>>
                 /\ Len(loop.cands) = Min(Cardinality(CollectionOf(loop.f)), 25)
                 /\ Len(loop.ctx) = Min(Len(loop.cands), 5)

\* a query against a collection of more than 25 entries has scored 25 pairs and
\* kept 5 chunks
C22_Witness ==
    /\ loop.op = "query" /\ loop.pc = "generate"
    /\ Cardinality(CollectionOf(loop.f)) > 25
    /\ Len(loop.scored) = 25
    /\ Len(loop.ctx) = 5

(***************************************************************************)
(* Properties of the vector store.                                         *)
(***************************************************************************)
\* C18: opening a collection name again neither makes a second collection of the
\* name nor changes the entries of any collection, and the one collection of a
\* name holds one copy of every Document added through any handle of the name.
C18_IdempotentReopen ==
    /\ [](pure.kind = "adapter" =>
             \A n \in CollNames :
                /\ Cardinality(Named(pure.colls, n)) <= 1
                /\ \A i \in Named(pure.colls, n) :
                     pure.colls[i].entries =
                        UNION {{<<k, d>> : d \in pure.log[k].batch} :
                                  k \in {j \in 1..Len(pure.log) : pure.log[j].name = n}})
    /\ [][(pure.kind = "adapter" /\ Len(pure'.handles) > Len(pure.handles))
             => \A i \in 1..Len(pure.colls) : pure'.colls[i] = pure.colls[i]]_vars

\* one collection name was opened twice and a batch of two Documents added once,
\* through the second handle
C18_Witness ==
    /\ pure.kind = "adapter"
    /\ Len(pure.handles) >= 2 /\ pure.handles[1] = pure.handles[2]
    /\ Len(pure.log) = 1
    /\ pure.colls[pure.handles[2]].entries = {<<1, "x">>, <<1, "y">>}

====
